---- MODULE Spec2Model ----
(***************************************************************************)
(* Model of tools/fast-whisper-transcribe.py: a one-shot command line      *)
(* program that parses its arguments with argparse, imports the            *)
(* faster-whisper library, builds a model, transcribes one audio file,     *)
(* joins the segment texts and prints a two-field JSON payload.            *)
(*                                                                         *)
(* Python strings that the program inspects (segment texts, language       *)
(* codes) are sequences of characters; Python values that may be None are  *)
(* tagged records.  The external library is the environment: every         *)
(* outcome it can produce (return, raise, yield, stop) is a choice.        *)
(***************************************************************************)
EXTENDS Integers, Sequences, FiniteSets, TLC

\* ---------------------------------------------------------------- bounds
MaxArgs == 3        \* command line items given to one run
MaxBeam == 2        \* --beam-size ranges over -MaxBeam..MaxBeam
MaxSegments == 3    \* segments the library yields at most

\* ------------------------------------------------------- Python values
None == [kind |-> "None"]
Unbound == [kind |-> "unbound"]
Str(s) == [kind |-> "str", val |-> s]
Bool(b) == [kind |-> "bool", val |-> b]

IsStr(v) == v.kind = "str"

\* truth value of None or of a string: None and "" are falsy
Truthy(v) == IsStr(v) /\ Len(v.val) > 0

\* Python `a or b`
PyOr(a, b) == IF Truthy(a) THEN a ELSE b

\* getattr(obj, name, default); an object is a record of its attributes
GetAttr(obj, name, default) == IF name \in DOMAIN obj THEN obj[name] ELSE default

Whitespace == {" "}

RECURSIVE lstrip(_)
lstrip(s) == IF s # <<>> /\ Head(s) \in Whitespace THEN lstrip(Tail(s)) ELSE s

RECURSIVE rstrip(_)
rstrip(s) ==
  IF s # <<>> /\ s[Len(s)] \in Whitespace THEN rstrip(SubSeq(s, 1, Len(s) - 1)) ELSE s

\* str.strip() with no argument
strip(s) == rstrip(lstrip(s))

\* sep.join(parts)
RECURSIVE join(_, _)
join(sep, parts) ==
  IF parts = <<>> THEN <<>>
  ELSE IF Len(parts) = 1 THEN parts[1]
  ELSE parts[1] \o sep \o join(sep, Tail(parts))

\* one element of the generator expression of line 37
Fragment(segment) == strip(PyOr(segment.text, Str(<<>>)).val)

\* the reduction of line 37 over the fragments collected so far
JoinText(frags) == strip(join(<<" ">>, frags))

\* variant: the parsed value is passed on as it is
BeamArg_NoClamp(b) == b

\* beam_size keyword argument of line 33
BeamArg(b) == IF b > 1 THEN b ELSE 1

\* language keyword argument of line 34
LanguageArg(l) == PyOr(l, None)

\* line 21
VadFilter(v) == Bool(v = "true")

\* variant: no `or ""` after the attribute lookup
PayloadLanguage_NoDefault(info) == GetAttr(info, "language", Str(<<>>))

\* language field of the payload, line 40
PayloadLanguage(info) == PyOr(GetAttr(info, "language", Str(<<>>)), Str(<<>>))

\* ------------------------------------------------------ input universes
\* texts a segment may carry: missing, empty, blank, plain, and padded on
\* both sides
SegmentTexts ==
  {None, Str(<<>>), Str(<<" ">>), Str(<<"a">>), Str(<<" ", "a", " ">>)}
Segments == [text : SegmentTexts]

Languages == {None, Str(<<>>), Str(<<"e", "n">>)}
\* the info record, with or without a language attribute
Infos == {[kind |-> "info"]} \cup [kind : {"info"}, language : Languages]

Exceptions == {"RuntimeError"}
ImportExceptions == {"ModuleNotFoundError"}

VadChoices == {"true", "false"}

\* items of the command line: an option with its value, or the help flag;
\* a --beam-size value is an integer literal (isInt, n) or not one
BeamItems ==
  {[opt |-> "--beam-size", isInt |-> TRUE, n |-> k] : k \in (0 - MaxBeam)..MaxBeam}
    \cup {[opt |-> "--beam-size", isInt |-> FALSE, n |-> 0]}
ArgItems ==
  {[opt |-> "--help"]}
    \cup {[opt |-> "--audio", path |-> "a.wav"]}
    \cup {[opt |-> "--model", name |-> "base"]}
    \cup {[opt |-> "--language", code |-> l] : l \in {<<>>, <<"e", "n">>}}
    \cup BeamItems
    \cup {[opt |-> "--vad-filter", choice |-> v] : v \in {"true", "false", "yes"}}

RECURSIVE SeqsUpTo(_, _)
SeqsUpTo(S, n) ==
  IF n = 0 THEN {<<>>}
  ELSE LET shorter == SeqsUpTo(S, n - 1)
       IN shorter \cup {Append(s, x) : s \in {t \in shorter : Len(t) = n - 1}, x \in S}

\* ----------------------------------------------------------------- state
VARIABLES
  argv,         \* command line items not yet consumed by the parser
  args,         \* the argparse namespace
  pc,           \* position of the run in main()
  vad_filter,   \* local of main(), line 21
  calls,        \* interactions with the library, in order
  yielded,      \* segments the lazy sequence has yielded so far
  frags,        \* fragments the generator expression has produced so far
  exhausted,    \* how many times the segment sequence ran to its end
  info,         \* info record returned by transcribe
  text,         \* local of main(), line 37
  payload,      \* local of main(), line 38
  stdout,       \* lines written to standard output
  stderr,       \* diagnostics written to standard error
  exit_status   \* {} while running, {status} once the process has exited

vars == <<argv, args, pc, vad_filter, calls, yielded, frags, exhausted, info, text,
          payload, stdout, stderr, exit_status>>

libvars == <<calls, yielded, frags, exhausted, info>>
locals == <<vad_filter, text, payload>>

\* defaults of the parser, lines 9-15
Defaults ==
  [audio |-> None, model |-> "small", device |-> "auto", compute_type |-> "int8",
   language |-> None, beam_size |-> 1, vad_filter |-> "true"]

Init ==
  /\ argv \in SeqsUpTo(ArgItems, MaxArgs)
  /\ args = Defaults
  /\ pc = "parse_args"
  /\ vad_filter = Unbound
  /\ calls = <<>>
  /\ yielded = <<>>
  /\ frags = <<>>
  /\ exhausted = 0
  /\ info = Unbound
  /\ text = Unbound
  /\ payload = Unbound
  /\ stdout = <<>>
  /\ stderr = <<>>
  /\ exit_status = {}

\* ------------------------------------------------------------ parse_args
\* variant: --vad-filter declared without choices
ValueAccepted_NoChoices(item) ==
  CASE item.opt = "--beam-size" -> item.isInt
    [] OTHER -> TRUE

\* is the value of the item acceptable to its option (type=int, choices)
ValueAccepted(item) ==
  CASE item.opt = "--beam-size" -> item.isInt
    [] item.opt = "--vad-filter" -> item.choice \in VadChoices
    [] OTHER -> TRUE

\* the namespace after storing an accepted item
Store(ns, item) ==
  CASE item.opt = "--audio" -> [ns EXCEPT !.audio = Str(item.path)]
    [] item.opt = "--model" -> [ns EXCEPT !.model = item.name]
    [] item.opt = "--language" -> [ns EXCEPT !.language = Str(item.code)]
    [] item.opt = "--beam-size" -> [ns EXCEPT !.beam_size = item.n]
    [] item.opt = "--vad-filter" -> [ns EXCEPT !.vad_filter = item.choice]
    [] OTHER -> ns

\* parser.error(): usage on standard error, exit status 2
UsageError(msg) ==
  /\ stderr' = Append(stderr, [prefix |-> "usage: ", detail |-> msg])
  /\ exit_status' = {2}
  /\ pc' = "exited"

\* the parser consumes one option and stores its value
ParseStore ==
  /\ pc = "parse_args"
  /\ argv # <<>>
  /\ Head(argv).opt # "--help"
  /\ ValueAccepted(Head(argv))
  /\ args' = Store(args, Head(argv))
  /\ argv' = Tail(argv)
  /\ UNCHANGED <<pc, locals, libvars, stdout, stderr, exit_status>>

\* the parser meets a value that its option's type or choices reject
ParseReject ==
  /\ pc = "parse_args"
  /\ argv # <<>>
  /\ Head(argv).opt # "--help"
  /\ ~ValueAccepted(Head(argv))
  /\ UsageError("invalid value")
  /\ UNCHANGED <<argv, args, locals, libvars, stdout>>

\* the parser meets -h/--help: help on standard output, exit status 0
ParseHelp ==
  /\ pc = "parse_args"
  /\ argv # <<>>
  /\ Head(argv).opt = "--help"
  /\ stdout' = Append(stdout, [kind |-> "help"])
  /\ exit_status' = {0}
  /\ pc' = "exited"
  /\ UNCHANGED <<argv, args, locals, libvars, stderr>>

\* variant: --audio declared without required=True
ParseMissingAudio_NotRequired ==
  /\ pc = "parse_args"
  /\ argv = <<>>
  /\ args.audio = None
  /\ vad_filter' = VadFilter(args.vad_filter)
  /\ pc' = "import"
  /\ UNCHANGED <<argv, args, text, payload, libvars, stdout, stderr, exit_status>>

\* all items consumed and the required --audio was never given
ParseMissingAudio ==
  /\ pc = "parse_args"
  /\ argv = <<>>
  /\ args.audio = None
  /\ UsageError("the following arguments are required: --audio")
  /\ UNCHANGED <<argv, args, locals, libvars, stdout>>

\* parse_args returns; main computes vad_filter (lines 20-21)
ParseReturn ==
  /\ pc = "parse_args"
  /\ argv = <<>>
  /\ args.audio # None
  /\ vad_filter' = VadFilter(args.vad_filter)
  /\ pc' = "import"
  /\ UNCHANGED <<argv, args, text, payload, libvars, stdout, stderr, exit_status>>

\* ------------------------------------------------------------------ main
\* the except clauses of lines 25-27 and 44-46: one diagnostic, one status
Fail(prefix, exc, status) ==
  /\ stderr' = Append(stderr, [prefix |-> prefix, detail |-> exc])
  /\ exit_status' = {status}
  /\ pc' = "exited"

\* line 24 succeeds
ImportOk ==
  /\ pc = "import"
  /\ calls' = Append(calls, [op |-> "import"])
  /\ pc' = "construct"
  /\ UNCHANGED <<argv, args, locals, yielded, frags, exhausted, info, stdout, stderr,
                 exit_status>>

\* variant: the handler reports the failure and falls through
ImportFail_NoReturn ==
  /\ pc = "import"
  /\ calls' = Append(calls, [op |-> "import"])
  /\ \E exc \in ImportExceptions :
       stderr' = Append(stderr, [prefix |-> "faster-whisper import failed: ", detail |-> exc])
  /\ pc' = "construct"
  /\ UNCHANGED <<argv, args, locals, yielded, frags, exhausted, info, stdout, exit_status>>

\* variant: the import failure is reported with the generic status
ImportFail_GenericStatus ==
  /\ pc = "import"
  /\ calls' = Append(calls, [op |-> "import"])
  /\ \E exc \in ImportExceptions : Fail("faster-whisper import failed: ", exc, 1)
  /\ UNCHANGED <<argv, args, locals, yielded, frags, exhausted, info, stdout>>

\* line 24 raises: lines 25-27
ImportFail ==
  /\ pc = "import"
  /\ calls' = Append(calls, [op |-> "import"])
  /\ \E exc \in ImportExceptions : Fail("faster-whisper import failed: ", exc, 2)
  /\ UNCHANGED <<argv, args, locals, yielded, frags, exhausted, info, stdout>>

\* the constructor call of line 30
ConstructorCall ==
  [op |-> "WhisperModel", model |-> args.model, device |-> args.device,
   compute_type |-> args.compute_type]

\* line 30 returns a model
ConstructOk ==
  /\ pc = "construct"
  /\ calls' = Append(calls, ConstructorCall)
  /\ pc' = "transcribe"
  /\ UNCHANGED <<argv, args, locals, yielded, frags, exhausted, info, stdout, stderr,
                 exit_status>>

\* variant: the constructor sits in the import's try block
ConstructRaise_ImportHandler ==
  /\ pc = "construct"
  /\ calls' = Append(calls, ConstructorCall)
  /\ \E exc \in Exceptions : Fail("faster-whisper import failed: ", exc, 2)
  /\ UNCHANGED <<argv, args, locals, yielded, frags, exhausted, info, stdout>>

\* line 30 raises: lines 44-46
ConstructRaise ==
  /\ pc = "construct"
  /\ calls' = Append(calls, ConstructorCall)
  /\ \E exc \in Exceptions : Fail("transcribe failed: ", exc, 1)
  /\ UNCHANGED <<argv, args, locals, yielded, frags, exhausted, info, stdout>>

\* the arguments of the transcription call of lines 31-36
TranscribeArgs(ns, vad) ==
  [op |-> "transcribe", audio |-> ns.audio, beam_size |-> BeamArg(ns.beam_size),
   language |-> LanguageArg(ns.language), vad_filter |-> vad]

TranscribeCall == TranscribeArgs(args, vad_filter)

\* lines 31-36 return the lazy segment sequence and the info record
TranscribeOk ==
  /\ pc = "transcribe"
  /\ calls' = Append(calls, TranscribeCall)
  /\ info' \in Infos
  /\ pc' = "iterate"
  /\ UNCHANGED <<argv, args, locals, yielded, frags, exhausted, stdout, stderr,
                 exit_status>>

\* lines 31-36 raise: lines 44-46
TranscribeRaise ==
  /\ pc = "transcribe"
  /\ calls' = Append(calls, TranscribeCall)
  /\ \E exc \in Exceptions : Fail("transcribe failed: ", exc, 1)
  /\ UNCHANGED <<argv, args, locals, yielded, frags, exhausted, info, stdout>>

\* line 37: the sequence yields a segment, the generator strips its text
SegmentYield ==
  /\ pc = "iterate"
  /\ Len(yielded) < MaxSegments
  /\ \E segment \in Segments :
       /\ yielded' = Append(yielded, segment)
       /\ frags' = Append(frags, Fragment(segment))
  /\ UNCHANGED <<argv, args, pc, locals, calls, exhausted, info, stdout, stderr,
                 exit_status>>

\* variant: the failure path flushes what was collected so far
SegmentRaise_PartialOutput ==
  /\ pc = "iterate"
  /\ \E exc \in Exceptions : Fail("transcribe failed: ", exc, 1)
  /\ stdout' = Append(stdout, [kind |-> "payload",
                               line |-> [text |-> Str(JoinText(frags)),
                                         language |-> PayloadLanguage(info)]])
  /\ UNCHANGED <<argv, args, locals, libvars>>

\* line 37: the library raises while the sequence is consumed: lines 44-46
SegmentRaise ==
  /\ pc = "iterate"
  /\ \E exc \in Exceptions : Fail("transcribe failed: ", exc, 1)
  /\ UNCHANGED <<argv, args, locals, libvars, stdout>>

\* line 37: the sequence ends, the fragments are joined and trimmed
SegmentsStop ==
  /\ pc = "iterate"
  /\ exhausted' = exhausted + 1
  /\ text' = Str(JoinText(frags))
  /\ pc' = "format"
  /\ UNCHANGED <<argv, args, vad_filter, payload, calls, yielded, frags, info, stdout,
                 stderr, exit_status>>

\* lines 38-41
Payload == [text |-> text, language |-> PayloadLanguage(info)]

\* lines 38-43: build the payload, print it as one line, return 0
Format ==
  /\ pc = "format"
  /\ payload' = Payload
  /\ stdout' = Append(stdout, [kind |-> "payload", line |-> Payload])
  /\ exit_status' = {0}
  /\ pc' = "exited"
  /\ UNCHANGED <<argv, args, vad_filter, text, libvars, stderr>>

Next ==
  \/ ParseStore
  \/ ParseReject
  \/ ParseHelp
  \/ ParseMissingAudio
  \/ ParseReturn
  \/ ImportOk
  \/ ImportFail
  \/ ConstructOk
  \/ ConstructRaise
  \/ TranscribeOk
  \/ TranscribeRaise
  \/ SegmentYield
  \/ SegmentRaise
  \/ SegmentsStop
  \/ Format

Spec == Init /\ [][Next]_vars

\* the process runs to completion unless it blocks inside the library
FairSpec == Spec /\ WF_vars(Next)

\* ------------------------------------------------------------ vocabulary
Exited == pc = "exited"

PayloadLines == SelectSeq(stdout, LAMBDA l : l.kind = "payload")
HelpLines == SelectSeq(stdout, LAMBDA l : l.kind = "help")

Diagnosed(prefix) == \E i \in DOMAIN stderr : stderr[i].prefix = prefix

Invoked(op) == \E i \in DOMAIN calls : calls[i].op = op
Invocations(op) == Cardinality({i \in DOMAIN calls : calls[i].op = op})

\* the parser stopped at a -h/--help item
HelpRequested == Exited /\ calls = <<>> /\ argv # <<>> /\ Head(argv).opt = "--help"

\* no --audio item on the command line: none stored, none left unread
AudioOmitted ==
  /\ args.audio = None
  /\ \A i \in DOMAIN argv : argv[i].opt # "--audio"

\* the five ways a run ends
UsageExit ==
  /\ exit_status = {2} /\ Diagnosed("usage: ") /\ Len(stderr) = 1
  /\ stdout = <<>> /\ calls = <<>>
HelpExit ==
  /\ exit_status = {0} /\ stderr = <<>> /\ Len(HelpLines) = 1 /\ Len(stdout) = 1
  /\ calls = <<>>
ImportFailureExit ==
  /\ exit_status = {2} /\ Diagnosed("faster-whisper import failed: ") /\ Len(stderr) = 1
  /\ stdout = <<>>
TranscribeFailureExit ==
  /\ exit_status = {1} /\ Diagnosed("transcribe failed: ") /\ Len(stderr) = 1
  /\ stdout = <<>>
SuccessExit ==
  /\ exit_status = {0} /\ stderr = <<>> /\ Len(PayloadLines) = 1 /\ Len(stdout) = 1

BoolToNat(b) == IF b THEN 1 ELSE 0

\* ---------------------------------------------------------------- claims
\* the trimmed text of each yielded segment, None counting as ""
TrimmedTexts ==
  [i \in DOMAIN yielded |->
     strip(IF IsStr(yielded[i].text) THEN yielded[i].text.val ELSE <<>>)]
NonEmptyTrimmedTexts == SelectSeq(TrimmedTexts, LAMBDA t : t # <<>>)

HasDoubleSpace(s) == \E i \in 1..(Len(s) - 1) : s[i] = " " /\ s[i + 1] = " "

\* C1: the payload's text is the trimmed single-space join of only the
\* non-empty trimmed segment texts, in the order yielded; a segment whose
\* trimmed text is empty contributes nothing.
C1_TextJoinsNonEmptyFragments ==
  payload # Unbound =>
    payload.text = Str(strip(join(<<" ">>, NonEmptyTrimmedTexts)))

\* C2 as stated: a payload line is on standard output if and only if the run
\* ended with exit status 0, and then it is exactly one line; a failure while
\* the segments are consumed leaves standard output empty.
C2_PayloadIffExitZero ==
  /\ Exited => ((PayloadLines # <<>>) <=> (exit_status = {0}))
  /\ Len(PayloadLines) <= 1
  /\ (Exited /\ Invoked("transcribe") /\ exit_status = {1}) => stdout = <<>>

\* C2 amended: a payload line is written only by a run that ends with exit
\* status 0 and is then the single line of standard output; a run that ends
\* with exit status 0 wrote the payload line unless the parser stopped at
\* -h/--help; a failure while the segments are consumed, after some were
\* yielded, leaves standard output empty.
C2_PayloadOnlyOnSuccess ==
  /\ Len(PayloadLines) <= 1
  /\ PayloadLines # <<>> => (Exited /\ exit_status = {0} /\ stdout = PayloadLines)
  /\ (Exited /\ exit_status = {0} /\ ~HelpRequested) => Len(PayloadLines) = 1
  /\ ~Exited => stdout = <<>>
  /\ (Exited /\ Invoked("transcribe") /\ exit_status = {1}) => stdout = <<>>

\* a run that failed while consuming the segments, after two were yielded
C2_Witness ==
  /\ Exited /\ exit_status = {1} /\ Len(yielded) >= 2 /\ exhausted = 0
  /\ stdout = <<>>

\* C3: a failed import ends the run with exit status 2 and one diagnostic
\* prefixed "faster-whisper import failed: " on standard error; the model
\* constructor and the transcription call are never invoked and no payload
\* is printed.
C3_ImportFailure ==
  /\ [][(pc = "import" /\ pc' = "exited") =>
          /\ exit_status' = {2}
          /\ Len(stderr') = 1
          /\ stderr'[1].prefix = "faster-whisper import failed: "
          /\ stderr'[1].detail \in ImportExceptions
          /\ stdout' = <<>>]_vars
  /\ [](Diagnosed("faster-whisper import failed: ") =>
          /\ Exited
          /\ exit_status = {2}
          /\ ~Invoked("WhisperModel")
          /\ ~Invoked("transcribe")
          /\ yielded = <<>>
          /\ stdout = <<>>)

C3_Witness ==
  /\ Exited /\ calls = <<[op |-> "import"]>> /\ exit_status = {2}
  /\ Diagnosed("faster-whisper import failed: ")

\* C4: once the library is imported, a failure at model construction, at
\* the transcription call or while the segments are consumed ends the run
\* with exit status 1 and one diagnostic prefixed "transcribe failed: "; the
\* failing operation was attempted once and is not attempted again.
C4_OperationalFailure ==
  /\ [][(pc \in {"construct", "transcribe", "iterate"} /\ pc' = "exited") =>
          /\ exit_status' = {1}
          /\ Len(stderr') = 1
          /\ stderr'[1].prefix = "transcribe failed: "
          /\ stderr'[1].detail \in Exceptions
          /\ Invoked("import")]_vars
  /\ [][Exited => (calls' = calls /\ yielded' = yielded /\ pc' = pc)]_vars
  /\ [](/\ Invocations("WhisperModel") <= 1
        /\ Invocations("transcribe") <= 1
        /\ exhausted <= 1)

C4_Witness ==
  /\ Exited /\ exit_status = {1} /\ Diagnosed("transcribe failed: ")
  /\ Invocations("WhisperModel") = 1 /\ Invocations("transcribe") = 0

\* C5: the exit status identifies the outcome: 0 exactly when the payload
\* was printed, 1 exactly when model construction or transcription failed,
\* 2 exactly when the library could not be imported; nothing else, a usage
\* error of the parser included, ends with status 2.
C5_ExitStatusIdentifiesOutcome ==
  Exited =>
    /\ (exit_status = {0}) <=> (PayloadLines # <<>>)
    /\ (exit_status = {1}) <=> Diagnosed("transcribe failed: ")
    /\ (exit_status = {2}) <=> Diagnosed("faster-whisper import failed: ")

\* C6 as stated: without --audio the run ends with a usage error during
\* argument parsing, before any library interaction, whatever the other
\* flags are.
C6_MissingAudioIsUsageError ==
  AudioOmitted =>
    /\ pc \in {"parse_args", "exited"}
    /\ calls = <<>>
    /\ Exited => UsageExit

\* C6 amended: without --audio the run ends during argument parsing, before
\* the import and any library call: with a usage error (exit status 2), or,
\* when the parser meets -h/--help before any rejected value, with the help
\* text on standard output and exit status 0.
C6_MissingAudioEndsInParser ==
  /\ [](AudioOmitted =>
          /\ pc \in {"parse_args", "exited"}
          /\ calls = <<>>
          /\ Exited => (UsageExit \/ (HelpRequested /\ HelpExit)))
  /\ (AudioOmitted ~> (Exited /\ calls = <<>>))

\* every item was read and --audio was never among them
C6_Witness ==
  /\ AudioOmitted /\ argv = <<>> /\ UsageExit /\ Exited
  /\ args.beam_size # 1

\* C7: the beam width passed to the transcription call is max(1, b) for the
\* parsed --beam-size b, never below 1, and a run with b <= 0 passes the
\* arguments that the run with b = 1 passes.
C7_BeamClamp ==
  \A i \in DOMAIN calls :
    calls[i].op = "transcribe" =>
      /\ calls[i].beam_size >= 1
      /\ calls[i].beam_size >= args.beam_size
      /\ calls[i].beam_size \in {1, args.beam_size}
      /\ args.beam_size <= 0 =>
           calls[i] = TranscribeArgs([args EXCEPT !.beam_size = 1], vad_filter)

C7_Witness ==
  /\ Invoked("transcribe") /\ args.beam_size < 0
  /\ calls[3].beam_size = 1

\* C8: the payload of a successful run has exactly the fields text and
\* language, both strings; language is "" when the info record has no
\* language attribute or one that is None or empty, and the reported
\* language otherwise.
C8_PayloadShape ==
  \A i \in DOMAIN stdout :
    stdout[i].kind = "payload" =>
      LET p == stdout[i].line
          reported == IF "language" \in DOMAIN info THEN info.language ELSE None
      IN /\ DOMAIN p = {"text", "language"}
         /\ IsStr(p.text)
         /\ IsStr(p.language)
         /\ p = payload
         /\ (reported = None \/ reported = Str(<<>>)) => p.language = Str(<<>>)
         /\ (reported # None /\ reported # Str(<<>>)) => p.language = reported

\* a payload printed for an info record without a language attribute
C8_Witness ==
  /\ Exited /\ Len(PayloadLines) = 1 /\ "language" \notin DOMAIN info
  /\ PayloadLines[1].line.language = Str(<<>>)

\* C9: a --vad-filter value other than "true" or "false" is rejected by the
\* parser, before the import and any library call; an accepted value is
\* stored, and the toggle passed to the transcription call is true exactly
\* when the stored value is "true" (the default when the flag is omitted)
\* and false exactly when it is "false".
C9_VadFilter ==
  /\ args.vad_filter = "true"
  /\ [][IF pc = "parse_args" /\ argv # <<>> /\ Head(argv).opt = "--vad-filter"
        THEN IF Head(argv).choice \in {"true", "false"}
             THEN args'.vad_filter = Head(argv).choice /\ pc' = "parse_args"
             ELSE pc' = "exited" /\ UsageExit' /\ args' = args
        ELSE args'.vad_filter = args.vad_filter]_vars
  /\ [](Invoked("import") => args.vad_filter \in {"true", "false"})
  /\ [](\A i \in DOMAIN calls :
          calls[i].op = "transcribe" =>
            /\ calls[i].vad_filter \in {Bool(TRUE), Bool(FALSE)}
            /\ calls[i].vad_filter = Bool(TRUE) <=> args.vad_filter = "true"
            /\ calls[i].vad_filter = Bool(FALSE) <=> args.vad_filter = "false")

\* the parser stopped at --vad-filter yes, after --audio was accepted
C9_Witness ==
  /\ Exited /\ UsageExit /\ args.audio # None
  /\ argv # <<>> /\ Head(argv).opt = "--vad-filter" /\ Head(argv).choice = "yes"

\* the phases of the run, in the order of the state machine
Phase ==
  CASE pc = "parse_args" -> 1
    [] pc = "import" -> 2
    [] pc \in {"construct", "transcribe", "iterate"} -> 3
    [] pc = "format" -> 4
    [] pc = "exited" -> 5

\* position inside main(), in program order
Position ==
  CASE pc = "parse_args" -> 1
    [] pc = "import" -> 2
    [] pc = "construct" -> 3
    [] pc = "transcribe" -> 4
    [] pc = "iterate" -> 5
    [] pc = "format" -> 6
    [] pc = "exited" -> 7

LibraryOrder == <<"import", "WhisperModel", "transcribe">>

\* a step never goes back, and leaves a phase for the next one or for Done
LinearStep ==
  /\ Position' >= Position
  /\ Phase' \in {Phase, Phase + 1, 5}
  /\ Exited => UNCHANGED vars

\* the library is called in order and at most once per operation; every
\* yielded segment is processed once and the sequence is run to its end once
CalledOnce ==
  /\ Len(calls) <= 3
  /\ \A i \in DOMAIN calls : calls[i].op = LibraryOrder[i]
  /\ Len(frags) = Len(yielded)
  /\ exhausted = BoolToNat(pc = "format" \/ PayloadLines # <<>>)

\* nothing is observable before the exit, and the exit has one status
OneExit ==
  IF Exited THEN Cardinality(exit_status) = 1
  ELSE exit_status = {} /\ stdout = <<>> /\ stderr = <<>>

FourExits ==
  BoolToNat(UsageExit) + BoolToNat(ImportFailureExit)
    + BoolToNat(TranscribeFailureExit) + BoolToNat(SuccessExit)

\* C10 as stated: Parsing -> Importing-Library -> Transcribing -> Formatting
\* -> Done without revisiting a state; import, constructor and transcription
\* call at most once each and in that order; the segments consumed exactly
\* once; every run eventually reaches exactly one terminal exit: usage
\* error, import failure, transcription failure or success.
C10_LinearFourExits ==
  /\ [][LinearStep]_vars
  /\ [](CalledOnce /\ OneExit)
  /\ [](Exited => FourExits = 1)
  /\ <>Exited

\* C10 amended: as stated, with a fifth terminal exit: the help text on
\* standard output and exit status 0 when the parser meets -h/--help.
C10_LinearFiveExits ==
  /\ [][LinearStep]_vars
  /\ [](CalledOnce /\ OneExit)
  /\ [](Exited => FourExits + BoolToNat(HelpExit) = 1)
  /\ [](HelpExit => HelpRequested)
  /\ <>Exited

\* a successful run that consumed three segments
C10_Witness ==
  /\ Exited /\ SuccessExit /\ Len(calls) = 3 /\ exhausted = 1
  /\ Len(yielded) = 3
====
